---- MODULE Spec2Model ----
(***************************************************************************)
(* Model of library_db.py: a terminal tool that keeps book records in a    *)
(* flat text file (Title/Author/ISBN/Year per line), appends new records   *)
(* after a confirmation dialogue, and prints the records sorted by year    *)
(* in a bordered table.                                                    *)
(*                                                                         *)
(* Text is modelled as a sequence of one-character strings, so that        *)
(* str.strip, str.split, the f-string join and the line iteration of a     *)
(* file object are computed character by character.                        *)
(***************************************************************************)
EXTENDS Integers, Sequences, FiniteSets, TLC

VARIABLES
    fs,      \* what DB_FILE_PATH names: "file", "absent", "nodir", "readonly", "isdir", "full"
    file,    \* content of the backing file (sequence of characters)
    pc,      \* "menu": main_menu waits for input; "confirm": add_book_to_db waits
             \* for y/n; "exited": sys.exit; "crashed": unhandled exception;
             \* "in"/"encoded"/"decoded"/"rendered": positions of the codec and renderer runs
    book,    \* the four fields typed into add_book_to_db
    out,     \* what the last step printed
    ret,     \* what the last call of read_db returned
    exc,     \* the exception that left the last handler, "none" if none
    pre,     \* fs and file as they were before the last step
    last,    \* the handler that took the last step
    adds,    \* number of add_book_to_db dialogues started
    line,    \* codec run: the text written for book
    rows     \* renderer run: the db_books handed to print_db_prettified

vars == <<fs, file, pc, book, out, ret, exc, pre, last, adds, line, rows>>

(***************************************************************************)
(* Bounds                                                                  *)
(***************************************************************************)
MaxLines == 2      \* lines of the backing file at start
MaxAdds == 1       \* add_book_to_db dialogues per run
MaxTitleLen == 2   \* characters of a title in the codec run
MaxYearLen == 2    \* characters of a year in the codec run
MaxRows == 2       \* rows handed to the renderer in the renderer run

(***************************************************************************)
(* Characters and text                                                     *)
(***************************************************************************)
NL == "\n"
SP == " "
SLASH == "/"

\* str.isdigit on the characters of the model's alphabet
IsDigit(c) == c \in {"0", "1", "2", "3", "4", "5", "6", "7", "8", "9"}

\* the characters str.strip() removes
IsSpace(c) == c \in {SP, NL}

\* code point of a digit character (text comparison compares code points)
Ord(c) ==
    CASE c = "0" -> 48 [] c = "1" -> 49 [] c = "2" -> 50 [] c = "3" -> 51
      [] c = "4" -> 52 [] c = "5" -> 53 [] c = "6" -> 54 [] c = "7" -> 55
      [] c = "8" -> 56 [] c = "9" -> 57 [] OTHER -> 0

\* " " * n ; a negative count gives the empty text
Spaces(n) == [i \in 1..n |-> SP]

\* "-" * n
Dashes(n) == [i \in 1..n |-> "-"]

RECURSIVE LStrip(_)
LStrip(s) ==
    IF s = <<>> THEN <<>>
    ELSE IF IsSpace(Head(s)) THEN LStrip(Tail(s)) ELSE s

RECURSIVE RStrip(_)
RStrip(s) ==
    IF s = <<>> THEN <<>>
    ELSE IF IsSpace(s[Len(s)]) THEN RStrip(SubSeq(s, 1, Len(s) - 1)) ELSE s

\* line.strip(): removes leading and trailing whitespace, not only the terminator
Strip(s) == LStrip(RStrip(s))

\* s.split('/')
RECURSIVE Split(_)
Split(s) ==
    IF \A i \in 1..Len(s) : s[i] # SLASH THEN <<s>>
    ELSE LET i == CHOOSE k \in 1..Len(s) :
                     s[k] = SLASH /\ \A j \in 1..(k - 1) : s[j] # SLASH
         IN  <<SubSeq(s, 1, i - 1)>> \o Split(SubSeq(s, i + 1, Len(s)))

\* f'{book}/{author}/{isbn}/{publishing_year}'
Encode(b) == b[1] \o <<SLASH>> \o b[2] \o <<SLASH>> \o b[3] \o <<SLASH>> \o b[4]

\* "for line in file": the lines of a text file, each with its terminator,
\* the last one without when the file does not end with one
RECURSIVE FileLines(_)
FileLines(content) ==
    IF content = <<>> THEN <<>>
    ELSE IF \A i \in 1..Len(content) : content[i] # NL THEN <<content>>
    ELSE LET i == CHOOSE k \in 1..Len(content) :
                     content[k] = NL /\ \A j \in 1..(k - 1) : content[j] # NL
         IN  <<SubSeq(content, 1, i)>> \o FileLines(SubSeq(content, i + 1, Len(content)))

(***************************************************************************)
(* Printed output: one entry per printed item                              *)
(***************************************************************************)
Msg(kind, n, text) == [kind |-> kind, n |-> n, text |-> text]

\* print_inside_box([title]) and the fixed lines printed with it
Box(title) == Msg(title, 0, <<>>)

\* the box print_error prints for FileNotFoundError
file_not_found_warning == Msg("not found!", 0, <<>>)

file_values_corrupt_zero_based(count, ln) == Msg("has invalid values!", count - 1, Strip(ln))

\* the box print_error prints for ValueError: 'Error found on line {count}' and
\* 'Faulty data was: {line.strip()}'
file_values_corrupt(count, ln) == Msg("has invalid values!", count, Strip(ln))

(***************************************************************************)
(* Sorting                                                                 *)
(***************************************************************************)
\* key=lambda x: ''.join(filter(str.isdigit, x[3]))
SortKey(x) == SelectSeq(x[4], IsDigit)

\* a < b on str: first differing code point decides, a proper prefix is smaller
RECURSIVE StrLess(_, _)
StrLess(a, b) ==
    IF b = <<>> THEN FALSE
    ELSE IF a = <<>> THEN TRUE
    ELSE IF Ord(Head(a)) # Ord(Head(b)) THEN Ord(Head(a)) < Ord(Head(b))
    ELSE StrLess(Tail(a), Tail(b))

\* position at which a stable sort puts x into the sorted list l: after every
\* element whose key is not greater
RECURSIVE InsertStable(_, _)
InsertStable(l, x) ==
    IF l = <<>> THEN <<x>>
    ELSE IF StrLess(SortKey(x), SortKey(Head(l))) THEN <<x>> \o l
    ELSE <<Head(l)>> \o InsertStable(Tail(l), x)

RECURSIVE InsertBeforeEqual(_, _)
InsertBeforeEqual(l, x) ==
    IF l = <<>> THEN <<x>>
    ELSE IF ~StrLess(SortKey(Head(l)), SortKey(x)) THEN <<x>> \o l
    ELSE <<Head(l)>> \o InsertBeforeEqual(Tail(l), x)

RECURSIVE SortUnstable(_)
SortUnstable(l) ==
    IF l = <<>> THEN <<>>
    ELSE InsertBeforeEqual(SortUnstable(SubSeq(l, 1, Len(l) - 1)), l[Len(l)])

\* db_books.sort(key=...): list.sort is stable
RECURSIVE Sort(_)
Sort(l) ==
    IF l = <<>> THEN <<>>
    ELSE InsertStable(Sort(SubSeq(l, 1, Len(l) - 1)), l[Len(l)])

(***************************************************************************)
(* read_db                                                                 *)
(***************************************************************************)
False == [kind |-> "False", books |-> <<>>]
List(l) == [kind |-> "list", books |-> l]
NoValue == [kind |-> "none", books |-> <<>>]

\* truth value of what read_db returned: False and the empty list are falsy
Truthy(v) == v.kind = "list" /\ v.books # <<>>

\* the for loop of read_db: count, split and unpack each line; stops at the
\* first line that does not unpack into four values (ValueError)
RECURSIVE ReadLines(_, _, _)
ReadLines(lines, count, db_books) ==
    IF count = Len(lines)
    THEN [error |-> FALSE, count |-> count, line |-> <<>>, db_books |-> db_books]
    ELSE LET c == count + 1
             parts == Split(Strip(lines[c]))
         IN  IF Len(parts) # 4
             THEN [error |-> TRUE, count |-> c, line |-> lines[c], db_books |-> db_books]
             ELSE ReadLines(lines, c, Append(db_books, parts))

\* open(DB_FILE_PATH, "r"): the exception it raises, "none" when it opens
OpenRead(f) ==
    CASE f \in {"absent", "nodir"} -> "FileNotFoundError"
      [] f = "isdir" -> "IsADirectoryError"
      [] OTHER -> "none"

read_db_uncaught(f, content) ==
    LET e == OpenRead(f)
        r == ReadLines(FileLines(content), 0, <<>>)
    IN  IF e # "none"
        THEN [exc |-> e, ret |-> NoValue, out |-> <<>>]
        ELSE IF r.error
        THEN [exc |-> "none", ret |-> False,
              out |-> <<file_values_corrupt(r.count, r.line)>>]
        ELSE [exc |-> "none", ret |-> List(Sort(r.db_books)), out |-> <<>>]

\* read_db: result, printed output and the exception that escapes it
read_db(f, content) ==
    LET e == OpenRead(f)
        r == ReadLines(FileLines(content), 0, <<>>)
    IN  IF e = "FileNotFoundError"
        THEN [exc |-> "none", ret |-> False, out |-> <<file_not_found_warning>>]
        ELSE IF e # "none"
        THEN [exc |-> e, ret |-> NoValue, out |-> <<>>]
        ELSE IF r.error
        THEN [exc |-> "none", ret |-> False,
              out |-> <<file_values_corrupt(r.count, r.line)>>]
        ELSE [exc |-> "none", ret |-> List(Sort(r.db_books)), out |-> <<>>]

(***************************************************************************)
(* Table renderer                                                          *)
(***************************************************************************)
headers == << <<"B", "O", "O", "K">>,
              <<"W", "R", "I", "T", "E", "R">>,
              <<"I", "S", "B", "N">>,
              <<"P", "U", "B", "L", "I", "S", "H", "I", "N", "G", " ", "Y", "E", "A", "R">> >>

\* max(len(str(item)) for item in data) over one column of the rows
RECURSIVE MaxLen(_, _)
MaxLen(data, j) ==
    IF Len(data) = 1 THEN Len(data[1][j])
    ELSE LET m == MaxLen(SubSeq(data, 1, Len(data) - 1), j)
             n == Len(data[Len(data)][j])
         IN  IF n > m THEN n ELSE m

\* db_books.append(headers); [max(...) for data in zip(*db_books)]; db_books.pop()
max_lengths(db_books) ==
    LET all == Append(db_books, headers)
    IN  [j \in 1..4 |-> MaxLen(all, j)]

\* print(f'|{" " * 2}{value}{" " * padding}  ', end='')
Cell(value, padding) == <<"|">> \o Spaces(2) \o value \o Spaces(padding) \o Spaces(2)

\* the four cells of one printed row, closed by '|'
RowText(r, w) ==
    Cell(r[1], w[1] - Len(r[1])) \o Cell(r[2], w[2] - Len(r[2]))
        \o Cell(r[3], w[3] - Len(r[3])) \o Cell(r[4], w[4] - Len(r[4])) \o <<"|">>

\* print_border(length): '-' * length
print_border(length) == Msg("border", 0, Dashes(length))

\* print_headers: the header row and the separator under it
print_headers(h, w, border_width) ==
    << Msg("header", 0, RowText(h, w)), Msg("separator", 0, Dashes(border_width)) >>

border_width_off_by_one(w) == w[1] + w[2] + w[3] + w[4] + 20

\* length = sum(max_lengths); border_width = length + 21
border_width(w) == w[1] + w[2] + w[3] + w[4] + 21

\* print_db_prettified: top border, headers, one row per book, bottom border,
\* empty line
print_db_prettified(db_books) ==
    LET w == max_lengths(db_books)
        bw == border_width(w)
    IN  <<print_border(bw)>> \o print_headers(headers, w, bw)
            \o [i \in 1..Len(db_books) |-> Msg("row", i, RowText(db_books[i], w))]
            \o <<print_border(bw), Msg("blank", 0, <<>>)>>

\* print_db_to_terminal
print_db_to_terminal(db_books) == print_db_prettified(db_books)

(***************************************************************************)
(* Input                                                                   *)
(***************************************************************************)
\* option.lower() on the answers the model types
Lower(option) ==
    CASE option = "Y" -> "y" [] option = "N" -> "n"
      [] option = "Q" -> "q" [] option = "C" -> "c" [] OTHER -> option

\* take_input: the typed answer in lower case
take_input(option) == Lower(option)

\* answers typed at the main menu and at the confirmation prompt
Answers == {"1", "2", "q", "Q", "c", "C", "y", "Y", "n", "N", "", "x"}

\* the keys of the commands dictionary of main_menu
commands == {"1", "2", "q", "c"}

(***************************************************************************)
(* The append of add_book_to_db                                            *)
(***************************************************************************)
AppendDataTrailingNewline(b) == Encode(b) \o <<NL>>

\* file.write('\n'); file.write(f'{book}/{author}/{isbn}/{publishing_year}')
AppendData(b) == <<NL>> \o Encode(b)

\* with open(DB_FILE_PATH, 'a') as file: the two writes.  The outcomes are the
\* exception raised ("none" if none) and the state of the path afterwards:
\* an absent file is created, a missing directory raises FileNotFoundError,
\* a read-only file PermissionError, a directory IsADirectoryError, and on a
\* full disk only part of the data reaches the file before OSError is raised.
AppendOutcomes(f, content, b) ==
    CASE f = "file" ->
            {[exc |-> "none", fs |-> "file", file |-> content \o AppendData(b)]}
      [] f = "absent" ->
            {[exc |-> "none", fs |-> "file", file |-> AppendData(b)]}
      [] f = "nodir" ->
            {[exc |-> "FileNotFoundError", fs |-> f, file |-> content]}
      [] f = "readonly" ->
            {[exc |-> "PermissionError", fs |-> f, file |-> content]}
      [] f = "isdir" ->
            {[exc |-> "IsADirectoryError", fs |-> f, file |-> content]}
      [] f = "full" ->
            {[exc |-> "OSError", fs |-> f,
              file |-> content \o SubSeq(AppendData(b), 1, k)] :
                 k \in 0..(Len(AppendData(b)) - 1)}

(***************************************************************************)
(* Start states                                                            *)
(***************************************************************************)
FsKinds == {"file", "absent", "nodir", "readonly", "isdir", "full"}

\* kinds of path that have a content
HasContent(f) == f \in {"file", "readonly", "full"}

\* books on file at start: years whose digit strings order differently as
\* text and as numbers ("19" < "9"), two years with the same digits, a year
\* without digits
InitBooks ==
    { << <<"a">>, <<"b">>, <<"7">>, y >> :
         y \in { <<"9">>, <<"1", "9">>, <<"1", "x", "9">>, <<"x">> } }

\* lines that do not hold four fields: empty, too few fields between blanks,
\* too many fields
BadLines ==
    { <<>>,
      <<SP, "a", SLASH, "b", SP>>,
      <<"a", SLASH, "b", SLASH, "7", SLASH, "9", SLASH, "x">> }

InitLines == {Encode(b) : b \in InitBooks} \cup BadLines

\* contents made of exactly n lines, each with its terminator
RECURSIVE Terminated(_)
Terminated(n) ==
    IF n = 0 THEN {<<>>}
    ELSE {f \o l \o <<NL>> : f \in Terminated(n - 1), l \in InitLines}

\* file contents at start: up to MaxLines lines, the last one with or
\* without its terminator
InitFiles ==
    LET t == UNION {Terminated(n) : n \in 0..MaxLines}
    IN  t \cup {SubSeq(f, 1, Len(f) - 1) : f \in t \ {<<>>}}

\* books typed into add_book_to_db: fields without '/', some empty, some with
\* blanks at the ends
Books ==
    { << <<"a">>, <<"b">>, <<"7">>, <<"1", "5">> >>,
      << <<"a">>, <<"b">>, <<"7">>, <<"9">> >>,
      << <<>>, <<>>, <<>>, <<>> >>,
      << <<SP, "a">>, <<"b">>, <<"7">>, <<"2", SP>> >> }

NoBook == << <<>>, <<>>, <<>>, <<>> >>

Snapshot == [fs |-> fs, file |-> file]

Init ==
    /\ fs \in FsKinds
    /\ file \in IF HasContent(fs) THEN InitFiles ELSE {<<>>}
    /\ pc = "menu"
    /\ book = NoBook
    /\ out = <<Box("Book Database")>>
    /\ ret = NoValue
    /\ exc = "none"
    /\ pre = [fs |-> fs, file |-> file]
    /\ last = "start"
    /\ adds = 0
    /\ line = <<>>
    /\ rows = <<>>

(***************************************************************************)
(* Handlers                                                                *)
(***************************************************************************)
\* the handler returned: the loop of __main__ calls main_menu again, which
\* prints the menu and waits for input
BackToMenu(printed) ==
    /\ pc' = "menu"
    /\ exc' = "none"
    /\ out' = printed \o <<Box("Book Database")>>

\* an exception left the handler: nothing catches it, the process ends
Crash(e, printed) ==
    /\ pc' = "crashed"
    /\ exc' = e
    /\ out' = printed

\* main_menu, option 1: add_book_to_db up to the first confirmation prompt
add_book_to_db ==
    /\ pc = "menu"
    /\ adds < MaxAdds
    /\ \E option \in Answers : take_input(option) = "1"
    /\ \E b \in Books : book' = b
    /\ pc' = "confirm"
    /\ out' = <<Box("Add new book"), Box("Is given information ok?")>>
    /\ adds' = adds + 1
    /\ pre' = Snapshot
    /\ last' = "add_book_to_db"
    /\ UNCHANGED <<fs, file, ret, exc, line, rows>>

\* the answer 'y': the append, the FileNotFoundError handler, print('save'), break
confirm_y ==
    /\ pc = "confirm"
    /\ \E option \in Answers : take_input(option) = "y"
    /\ \E r \in AppendOutcomes(fs, file, book) :
          /\ fs' = r.fs
          /\ file' = r.file
          /\ CASE r.exc = "none" -> BackToMenu(<<Box("save")>>)
                [] r.exc = "FileNotFoundError" ->
                      BackToMenu(<<file_not_found_warning, Box("save")>>)
                [] OTHER -> Crash(r.exc, <<>>)
    /\ pre' = Snapshot
    /\ last' = "confirm_y"
    /\ UNCHANGED <<book, ret, adds, line, rows>>

\* the answer 'n': break
confirm_n ==
    /\ pc = "confirm"
    /\ \E option \in Answers : take_input(option) = "n"
    /\ BackToMenu(<<>>)
    /\ pre' = Snapshot
    /\ last' = "confirm_n"
    /\ UNCHANGED <<fs, file, book, ret, adds, line, rows>>

\* any other answer: continue, the prompt is printed again
confirm_other ==
    /\ pc = "confirm"
    /\ \E option \in Answers : take_input(option) \notin {"y", "n"}
    /\ pc' = "confirm"
    /\ out' = <<Box("Is given information ok?")>>
    /\ pre' = Snapshot
    /\ last' = "confirm_other"
    /\ UNCHANGED <<fs, file, book, ret, exc, adds, line, rows>>

\* main_menu, option 2: print_db
print_db ==
    /\ pc = "menu"
    /\ \E option \in Answers : take_input(option) = "2"
    /\ LET r == read_db(fs, file)
           db_books == r.ret
           printed == <<Box("Print database!")>> \o r.out
       IN  /\ ret' = db_books
           /\ IF r.exc # "none" THEN Crash(r.exc, printed)
              ELSE IF Truthy(db_books)
              THEN BackToMenu(printed \o print_db_to_terminal(db_books.books))
              ELSE BackToMenu(printed)
    /\ pre' = Snapshot
    /\ last' = "print_db"
    /\ UNCHANGED <<fs, file, book, adds, line, rows>>

\* main_menu, option q: exit_program
exit_program ==
    /\ pc = "menu"
    /\ \E option \in Answers : take_input(option) = "q"
    /\ pc' = "exited"
    /\ out' = <<Box("Exiting the program. Have a lovely day!")>>
    /\ pre' = Snapshot
    /\ last' = "exit_program"
    /\ UNCHANGED <<fs, file, book, ret, exc, adds, line, rows>>

\* main_menu, option c: clear_terminal
clear_terminal ==
    /\ pc = "menu"
    /\ \E option \in Answers : take_input(option) = "c"
    /\ BackToMenu(<<>>)
    /\ pre' = Snapshot
    /\ last' = "clear_terminal"
    /\ UNCHANGED <<fs, file, book, ret, adds, line, rows>>

\* main_menu, any other input: the invalid-input box
invalid_input_warning ==
    /\ pc = "menu"
    /\ \E option \in Answers : take_input(option) \notin commands
    /\ BackToMenu(<<Box("Invalid input")>>)
    /\ pre' = Snapshot
    /\ last' = "invalid_input_warning"
    /\ UNCHANGED <<fs, file, book, ret, adds, line, rows>>

Next ==
    \/ add_book_to_db
    \/ confirm_y
    \/ confirm_n
    \/ confirm_other
    \/ print_db
    \/ exit_program
    \/ clear_terminal
    \/ invalid_input_warning

Spec == Init /\ [][Next]_vars

(***************************************************************************)
(* Codec run: one book is written as a line and the line is read back      *)
(***************************************************************************)
\* texts of at most n characters over an alphabet
Texts(alphabet, n) == UNION {[1..k -> alphabet] : k \in 0..n}

\* books without '/' in any field; fields may be empty or carry blanks at
\* either end
CodecBooks ==
    { <<t, a, i, y>> :
         t \in Texts({"a", SP}, MaxTitleLen), a \in {<<>>, <<"b">>},
         i \in {<<>>, <<"7">>}, y \in Texts({"1", "9", SP}, MaxYearLen) }

InitCodec ==
    /\ fs = "file"
    /\ file = <<>>
    /\ pc = "in"
    /\ book \in CodecBooks
    /\ out = <<>>
    /\ ret = NoValue
    /\ exc = "none"
    /\ pre = [fs |-> "file", file |-> <<>>]
    /\ last = "start"
    /\ adds = 0
    /\ line = <<>>
    /\ rows = <<>>

\* the text add_book_to_db writes for the book
encode ==
    /\ pc = "in"
    /\ line' = Encode(book)
    /\ pc' = "encoded"
    /\ last' = "encode"
    /\ UNCHANGED <<fs, file, book, out, ret, exc, pre, adds, rows>>

\* read_db unpacks the line, read with or without a terminator after it
decode ==
    /\ pc = "encoded"
    /\ \E term \in {<<>>, <<NL>>} :
          LET r == ReadLines(<<line \o term>>, 0, <<>>)
          IN  ret' = IF r.error THEN False ELSE List(r.db_books)
    /\ pc' = "decoded"
    /\ last' = "decode"
    /\ UNCHANGED <<fs, file, book, out, exc, pre, adds, line, rows>>

NextCodec ==
    \/ encode
    \/ decode

SpecCodec == InitCodec /\ [][NextCodec]_vars

(***************************************************************************)
(* Renderer run: print_db_prettified on a list of rows                     *)
(***************************************************************************)
Rep(c, n) == [i \in 1..n |-> c]

\* rows whose values are shorter and longer than the header of their column
RenderBooks ==
    { <<Rep("a", t), Rep("b", a), Rep("7", 4), Rep("9", y)>> :
         t \in {0, 5}, a \in {1, 7}, y \in {1, 16} }

InitRender ==
    /\ fs = "file"
    /\ file = <<>>
    /\ pc = "in"
    /\ book = NoBook
    /\ out = <<>>
    /\ ret = NoValue
    /\ exc = "none"
    /\ pre = [fs |-> "file", file |-> <<>>]
    /\ last = "start"
    /\ adds = 0
    /\ line = <<>>
    /\ rows \in UNION {[1..k -> RenderBooks] : k \in 0..MaxRows}

render ==
    /\ pc = "in"
    /\ out' = print_db_prettified(rows)
    /\ pc' = "rendered"
    /\ last' = "print_db_prettified"
    /\ UNCHANGED <<fs, file, book, ret, exc, pre, adds, line, rows>>

NextRender == render

SpecRender == InitRender /\ [][NextRender]_vars

(***************************************************************************)
(* Vocabulary of the properties, stated without the operators above        *)
(***************************************************************************)
DigitChars == {"0", "1", "2", "3", "4", "5", "6", "7", "8", "9"}

DigitValue ==
    [c \in DigitChars |->
        CASE c = "0" -> 0 [] c = "1" -> 1 [] c = "2" -> 2 [] c = "3" -> 3
          [] c = "4" -> 4 [] c = "5" -> 5 [] c = "6" -> 6 [] c = "7" -> 7
          [] c = "8" -> 8 [] c = "9" -> 9]

\* the digit characters of a year, in original order
DigitString(year) == SelectSeq(year, LAMBDA c : c \in DigitChars)

\* a <= b in lexicographic order of digit strings
LexLeq(a, b) ==
    \/ /\ Len(a) <= Len(b)
       /\ \A i \in 1..Len(a) : a[i] = b[i]
    \/ \E i \in 1..Len(a) :
          /\ i <= Len(b)
          /\ \A j \in 1..(i - 1) : a[j] = b[j]
          /\ DigitValue[a[i]] < DigitValue[b[i]]

\* a line without its terminator
Unterminated(l) ==
    IF l # <<>> /\ l[Len(l)] = NL THEN SubSeq(l, 1, Len(l) - 1) ELSE l

\* a line without the blanks and terminators at its two ends
Trimmed(l) ==
    LET inner == {i \in 1..Len(l) : l[i] \notin {SP, NL}}
    IN  IF inner = {} THEN <<>>
        ELSE SubSeq(l, CHOOSE i \in inner : \A j \in inner : i <= j,
                       CHOOSE i \in inner : \A j \in inner : j <= i)

\* the line does not consist of four '/'-separated parts
Malformed(l) == Cardinality({i \in 1..Len(l) : l[i] = SLASH}) # 3

\* the four fields of a well-formed line, cut at its three delimiters
FieldsOf(l) ==
    LET t == Trimmed(l)
        d == {i \in 1..Len(t) : t[i] = SLASH}
        d1 == CHOOSE i \in d : \A j \in d : i <= j
        d3 == CHOOSE i \in d : \A j \in d : j <= i
        d2 == CHOOSE i \in d : i # d1 /\ i # d3
    IN  << SubSeq(t, 1, d1 - 1), SubSeq(t, d1 + 1, d2 - 1),
           SubSeq(t, d2 + 1, d3 - 1), SubSeq(t, d3 + 1, Len(t)) >>

\* the lines of the file before the last step
LinesBefore == FileLines(pre.file)

\* the last step was a list operation on a path that could be opened
Loaded == last = "print_db" /\ HasContent(pre.fs)

\* the kinds of the printed items, in order
Kinds(o) == [i \in 1..Len(o) |-> o[i].kind]

\* the printed items that are lines of the table
TableLines(o) ==
    SelectSeq(o, LAMBDA e : e.kind \in {"border", "header", "separator", "row"})

\* the last step was a confirmed write that raised nothing
Appended ==
    /\ last = "confirm_y"
    /\ pc = "menu"
    /\ \A i \in 1..Len(out) : out[i] # file_not_found_warning

\* the content of the path before the last step, an absent file counting as empty
ContentBefore == IF pre.fs = "absent" THEN <<>> ELSE pre.file

\* the text title/author/isbn/year of the book of the dialogue
RecordText ==
    book[1] \o <<"/">> \o book[2] \o <<"/">> \o book[3] \o <<"/">> \o book[4]

\* l is ordered ascending by the digit string of the year
Ascending(l) ==
    \A i \in 1..Len(l) : \A j \in 1..Len(l) :
        i < j => LexLeq(DigitString(l[i][4]), DigitString(l[j][4]))

\* the number of positions of l that hold x
Count(l, x) == Cardinality({i \in 1..Len(l) : l[i] = x})

C1_AppendThenLoad ==
    (Appended /\ pre.fs = "file" /\ read_db(pre.fs, pre.file).ret.kind = "list") =>
        LET before == read_db(pre.fs, pre.file).ret.books
            after == read_db(fs, file).ret
        IN  /\ after.kind = "list"
            /\ Len(after.books) = Len(before) + 1
            /\ Ascending(after.books)
            /\ Count(after.books, book) = Count(before, book) + 1
            /\ \A i \in 1..Len(before) :
                  before[i] # book
                      => Count(after.books, before[i]) = Count(before, before[i])

(***************************************************************************)
(* C2                                                                      *)
(***************************************************************************)
\* C2: a book whose fields hold no '/' is read back from the line written
\* for it with the same four fields, character for character.
C2_RoundTrip == pc = "decoded" => ret = List(<<book>>)

(***************************************************************************)
(* C4                                                                      *)
(***************************************************************************)
\* the first malformed line of the file before the last step
FirstMalformed ==
    CHOOSE i \in 1..Len(LinesBefore) :
        /\ Malformed(LinesBefore[i])
        /\ \A j \in 1..(i - 1) : ~Malformed(LinesBefore[j])

HasMalformed == \E i \in 1..Len(LinesBefore) : Malformed(LinesBefore[i])

\* the load failed on a malformed line and printed this report, and neither
\* returned nor printed any record
MalformedReport(n, text) ==
    /\ ret = False
    /\ pc = "menu"
    /\ Count(out, Msg("has invalid values!", n, text)) = 1
    /\ Count(Kinds(out), "has invalid values!") = 1
    /\ TableLines(out) = <<>>

ColumnWidth(j) ==
    LET lens == {Len(headers[j])} \cup {Len(rows[i][j]) : i \in 1..Len(rows)}
    IN  CHOOSE m \in lens : \A n \in lens : n <= m

\* C6: for every list of rows, the empty one included, each column is as
\* wide as the longest of its header and its values, no padding is
\* negative, and the two borders, the header row, the separator and every
\* data row are (sum of the four widths) + 21 characters long.
C6_ColumnAlignment ==
    pc = "rendered" =>
        LET total == ColumnWidth(1) + ColumnWidth(2) + ColumnWidth(3)
                        + ColumnWidth(4) + 21
        IN  /\ \A j \in 1..4 : max_lengths(rows)[j] = ColumnWidth(j)
            /\ \A j \in 1..4 :
                  /\ max_lengths(rows)[j] - Len(headers[j]) >= 0
                  /\ \A i \in 1..Len(rows) :
                        max_lengths(rows)[j] - Len(rows[i][j]) >= 0
            /\ Kinds(out) = <<"border", "header", "separator">>
                                \o [i \in 1..Len(rows) |-> "row"]
                                \o <<"border", "blank">>
            /\ \A i \in 1..Len(TableLines(out)) :
                  Len(TableLines(out)[i].text) = total

\* a rendered table with a title longer than its header and a year shorter
\* than its header
C6_Witness ==
    /\ pc = "rendered"
    /\ \E i \in 1..Len(rows) :
          /\ Len(rows[i][1]) > Len(headers[1])
          /\ Len(rows[i][4]) < Len(headers[4])
    /\ Len(TableLines(out)) = Len(rows) + 4

(***************************************************************************)
(* C7                                                                      *)
(***************************************************************************)
\* C7: whatever fails in the append or in the load, no exception leaves
\* add_book_to_db or read_db: the handler returns and the main menu is
\* shown again.
C7_ErrorsAreValues ==
    last \in {"confirm_y", "print_db"} => (exc = "none" /\ pc = "menu")

(***************************************************************************)
(* C8                                                                      *)
(***************************************************************************)
\* C8: the list operation on an existing file without lines gets the empty
\* list from read_db and prints the top border, the header row, the
\* separator and the bottom border, and no data row.
C8_EmptyListing ==
    (Loaded /\ pre.file = <<>>) =>
        /\ ret = List(<<>>)
        /\ Kinds(TableLines(out)) = <<"border", "header", "separator", "border">>

(***************************************************************************)
(* C9                                                                      *)
(***************************************************************************)
\* C9: a successful append leaves the file with its former content (empty
\* for an absent file), then one newline, then title/author/isbn/year, and
\* nothing after it.
C9_AppendEffect ==
    Appended =>
        /\ fs = "file"
        /\ file = ContentBefore \o <<NL>> \o RecordText

\* an append that created the file, which now starts with an empty line
C9_Witness ==
    /\ Appended
    /\ pre.fs = "absent"
    /\ fs = "file"
    /\ file[1] = NL
    /\ Len(file) > 1

(***************************************************************************)
(* C10                                                                     *)
(***************************************************************************)
\* C10: in the dialogue of add_book_to_db the file changes only on the
\* answer 'y', which ends the dialogue; 'n' returns to the main menu and any
\* other answer asks again, both with the file unchanged; and 'save' is
\* printed only when the book was written to the file.
C10_ConfirmationProtocol ==
    /\ (fs # pre.fs \/ file # pre.file) => last = "confirm_y"
    /\ last = "confirm_y" => pc # "confirm"
    /\ last = "confirm_n" => pc = "menu"
    /\ last \in {"add_book_to_db", "confirm_other"} => pc = "confirm"
    /\ Count(Kinds(out), "save") <= 1
    /\ Count(Kinds(out), "save") = 1 =>
          /\ last = "confirm_y"
          /\ fs = "file"
          /\ file = ContentBefore \o <<NL>> \o RecordText

====
